---- MODULE Spec2Model ----
(***************************************************************************)
(* Model of the record-parsing engine of the JSONL viewer                  *)
(* (src/lib/parse-jsonl.ts).                                               *)
(*                                                                         *)
(* A text is a sequence of one-character strings.  JSON values are tagged  *)
(* records [t, v]; an object is the sequence of its own properties         *)
(* [k, v] in the order Object.keys reports them.                           *)
(***************************************************************************)
EXTENDS Integers, Sequences, FiniteSets, TLC

VARIABLES
    text,       \* the argument of the call of parseJsonl
    pc,         \* the caller's position: "ready", "returned" or "threw"
    result,     \* the outcome of the latest call
    first,      \* history: the first call made and what it returned
    viewer,     \* the state hooks of JsonlViewer
    dz,         \* the state hooks of the mounted DropZone
    pending,    \* the file and clipboard reads in flight
    sorting,    \* the sorting state of the mounted TableView
    lastEvent,  \* history: the handler that ran last and what it was given
    currentIndex,   \* the position shown by the mounted TreeView
    lastStarted     \* history, kept by SpecReads: the name of the read started last

engineVars == <<text, pc, result, first>>

viewerVars == <<viewer, dz, pending, sorting, lastEvent, currentIndex, lastStarted>>

vars == <<text, pc, result, first, viewer, dz, pending, sorting, lastEvent,
          currentIndex, lastStarted>>

(***************************************************************************)
(* Characters and strings                                                  *)
(***************************************************************************)

\* White space removed by String.prototype.trim, as far as the inputs
\* explored contain it; the same four characters are JSON's white space.
WhiteSpace == {" ", "\n", "\r", "\t"}

Digits == <<"0", "1", "2", "3", "4", "5", "6", "7", "8", "9">>

IsDigit(c) == \E d \in 1..10 : Digits[d] = c

DigitVal(c) == (CHOOSE d \in 1..10 : Digits[d] = c) - 1

\* s.slice(i - 1, j): the characters at 1-based positions i..j
Slice(s, i, j) == IF j < i THEN <<>> ELSE SubSeq(s, i, j)

RECURSIVE TrimStart(_)
TrimStart(s) ==
    IF s # <<>> /\ Head(s) \in WhiteSpace THEN TrimStart(Tail(s)) ELSE s

RECURSIVE TrimEnd(_)
TrimEnd(s) ==
    IF s # <<>> /\ s[Len(s)] \in WhiteSpace
    THEN TrimEnd(SubSeq(s, 1, Len(s) - 1))
    ELSE s

\* String.prototype.trim
trim(s) == TrimEnd(TrimStart(s))

\* s.startsWith(c) for a one-character c
startsWith(s, c) == s # <<>> /\ Head(s) = c

\* s.split("\n"): the pieces between newlines; one more piece than newlines
RECURSIVE SplitFrom(_, _, _)
SplitFrom(s, i, cur) ==
    IF i > Len(s) THEN <<cur>>
    ELSE IF s[i] = "\n" THEN <<cur>> \o SplitFrom(s, i + 1, <<>>)
    ELSE SplitFrom(s, i + 1, Append(cur, s[i]))

split(s) == SplitFrom(s, 1, <<>>)

\* Decimal rendering of a non-negative integer, as in `${n}` and in
\* JSON.stringify of an integral number
RECURSIVE NatToString(_)
NatToString(n) ==
    IF n < 10 THEN <<Digits[n + 1]>>
    ELSE Append(NatToString(n \div 10), Digits[(n % 10) + 1])

IntToString(n) == IF n < 0 THEN <<"-">> \o NatToString(0 - n) ELSE NatToString(n)

RECURSIVE StringToNat(_)
StringToNat(s) ==
    IF s = <<>> THEN 0
    ELSE 10 * StringToNat(SubSeq(s, 1, Len(s) - 1)) + DigitVal(s[Len(s)])

(***************************************************************************)
(* JSON values                                                             *)
(***************************************************************************)

JNull == [t |-> "null", v |-> <<>>]
JBool(b) == [t |-> "bool", v |-> IF b THEN <<"true">> ELSE <<"false">>]
JNum(n) == [t |-> "num", v |-> <<n>>]
JStr(s) == [t |-> "str", v |-> s]
JArr(items) == [t |-> "arr", v |-> items]
JObj(props) == [t |-> "obj", v |-> props]

\* typeof x === "object" && x !== null
IsObjectLike(x) == x.t \in {"arr", "obj"}

\* Array.isArray(x)
IsArray(x) == x.t = "arr"

\* A property name that is an array index ("0", "7", "12"): such own
\* properties are enumerated first, in ascending numeric order.
IsIndexKey(k) ==
    /\ k # <<>>
    /\ \A i \in 1..Len(k) : IsDigit(k[i])
    /\ (Len(k) > 1 => k[1] # "0")

HasKey(props, k) == \E i \in 1..Len(props) : props[i].k = k

\* Position at which a new property named k is enumerated
InsertAt(props, k) ==
    IF IsIndexKey(k)
    THEN 1 + Cardinality({i \in 1..Len(props) :
                 IsIndexKey(props[i].k) /\ StringToNat(props[i].k) < StringToNat(k)})
    ELSE Len(props) + 1

\* obj[k] = v on an ordinary object: an existing property keeps its place
\* and takes the new value, a new one is created
SetProp(props, k, v) ==
    IF HasKey(props, k)
    THEN [i \in 1..Len(props) |->
            IF props[i].k = k THEN [k |-> k, v |-> v] ELSE props[i]]
    ELSE LET p == InsertAt(props, k)
         IN  SubSeq(props, 1, p - 1) \o <<[k |-> k, v |-> v]>>
                 \o SubSeq(props, p, Len(props))

\* Object.keys(obj)
ObjectKeys(obj) == [i \in 1..Len(obj.v) |-> obj.v[i].k]

(***************************************************************************)
(* JSON.parse and JSON.stringify                                           *)
(*                                                                         *)
(* The grammar is the one of JSON restricted to the characters the inputs  *)
(* explored contain: integers (no fraction, no exponent) and strings       *)
(* without escape sequences.  A SyntaxError is the outcome ok = FALSE.     *)
(***************************************************************************)

SyntaxError == [ok |-> FALSE, val |-> JNull, pos |-> 0]

Parsed(v, p) == [ok |-> TRUE, val |-> v, pos |-> p]

RECURSIVE SkipWs(_, _)
SkipWs(s, i) ==
    IF i <= Len(s) /\ s[i] \in WhiteSpace THEN SkipWs(s, i + 1) ELSE i

CharAt(s, i) == IF i >= 1 /\ i <= Len(s) THEN s[i] ELSE ""

MatchAt(s, i, lit) ==
    /\ i + Len(lit) - 1 <= Len(s)
    /\ SubSeq(s, i, i + Len(lit) - 1) = lit

\* First position at or after i that holds no digit
RECURSIVE DigitsEnd(_, _)
DigitsEnd(s, i) ==
    IF i <= Len(s) /\ IsDigit(s[i]) THEN DigitsEnd(s, i + 1) ELSE i

parseNumber(s, i) ==
    LET neg == CharAt(s, i) = "-"
        j   == IF neg THEN i + 1 ELSE i
        k   == IF CharAt(s, j) = "0" THEN j + 1 ELSE DigitsEnd(s, j)
        n   == StringToNat(SubSeq(s, j, k - 1))
    IN  IF ~IsDigit(CharAt(s, j)) THEN SyntaxError
        ELSE Parsed(JNum(IF neg THEN 0 - n ELSE n), k)

\* Position of the quote closing a string whose content starts at i; 0 when
\* the string is unterminated or holds a raw control character
RECURSIVE StringEnd(_, _)
StringEnd(s, i) ==
    IF i > Len(s) THEN 0
    ELSE IF s[i] = "\"" THEN i
    ELSE IF s[i] \in {"\n", "\r", "\t"} THEN 0
    ELSE StringEnd(s, i + 1)

parseString(s, i) ==
    LET e == StringEnd(s, i + 1)
    IN  IF CharAt(s, i) # "\"" \/ e = 0 THEN SyntaxError
        ELSE Parsed(JStr(Slice(s, i + 1, e - 1)), e + 1)

RECURSIVE parseValue(_, _)
RECURSIVE parseElements(_, _, _)
RECURSIVE parseMembers(_, _, _)

\* The elements of an array after "[" or ",": a value, then "," or "]"
parseElements(s, i, items) ==
    LET r == parseValue(s, i)
        k == SkipWs(s, r.pos)
    IN  IF ~r.ok THEN SyntaxError
        ELSE IF CharAt(s, k) = ","
             THEN parseElements(s, SkipWs(s, k + 1), Append(items, r.val))
        ELSE IF CharAt(s, k) = "]"
             THEN Parsed(JArr(Append(items, r.val)), k + 1)
        ELSE SyntaxError

\* The members of an object after "{" or ",": "key" : value, then "," or "}"
parseMembers(s, i, props) ==
    LET key == parseString(s, i)
        c   == SkipWs(s, key.pos)
        r   == parseValue(s, SkipWs(s, c + 1))
        k   == SkipWs(s, r.pos)
    IN  IF ~key.ok \/ CharAt(s, c) # ":" THEN SyntaxError
        ELSE IF ~r.ok THEN SyntaxError
        ELSE IF CharAt(s, k) = ","
             THEN parseMembers(s, SkipWs(s, k + 1), SetProp(props, key.val.v, r.val))
        ELSE IF CharAt(s, k) = "}"
             THEN Parsed(JObj(SetProp(props, key.val.v, r.val)), k + 1)
        ELSE SyntaxError

\* One JSON value starting at position i (no leading white space)
parseValue(s, i) ==
    LET c == CharAt(s, i)
    IN  IF c = "[" THEN
            IF CharAt(s, SkipWs(s, i + 1)) = "]"
            THEN Parsed(JArr(<<>>), SkipWs(s, i + 1) + 1)
            ELSE parseElements(s, SkipWs(s, i + 1), <<>>)
        ELSE IF c = "{" THEN
            IF CharAt(s, SkipWs(s, i + 1)) = "}"
            THEN Parsed(JObj(<<>>), SkipWs(s, i + 1) + 1)
            ELSE parseMembers(s, SkipWs(s, i + 1), <<>>)
        ELSE IF c = "\"" THEN parseString(s, i)
        ELSE IF c = "-" \/ IsDigit(c) THEN parseNumber(s, i)
        ELSE IF MatchAt(s, i, <<"t", "r", "u", "e">>) THEN Parsed(JBool(TRUE), i + 4)
        ELSE IF MatchAt(s, i, <<"f", "a", "l", "s", "e">>) THEN Parsed(JBool(FALSE), i + 5)
        ELSE IF MatchAt(s, i, <<"n", "u", "l", "l">>) THEN Parsed(JNull, i + 4)
        ELSE SyntaxError

\* JSON.parse(s): one value with white space around it and nothing else
JSONparse(s) ==
    LET r == parseValue(s, SkipWs(s, 1))
    IN  IF r.ok /\ SkipWs(s, r.pos) > Len(s) THEN r ELSE SyntaxError

RECURSIVE JSONstringify(_)
RECURSIVE JoinValues(_, _)
RECURSIVE JoinProps(_, _)

JoinValues(items, i) ==
    IF i > Len(items) THEN <<>>
    ELSE (IF i > 1 THEN <<",">> ELSE <<>>)
             \o JSONstringify(items[i]) \o JoinValues(items, i + 1)

JoinProps(props, i) ==
    IF i > Len(props) THEN <<>>
    ELSE (IF i > 1 THEN <<",">> ELSE <<>>)
             \o <<"\"">> \o props[i].k \o <<"\"", ":">>
             \o JSONstringify(props[i].v) \o JoinProps(props, i + 1)

\* JSON.stringify(x) without indentation
JSONstringify(x) ==
    IF x.t = "null" THEN <<"n", "u", "l", "l">>
    ELSE IF x.t = "bool" THEN
        IF x = JBool(TRUE) THEN <<"t", "r", "u", "e">> ELSE <<"f", "a", "l", "s", "e">>
    ELSE IF x.t = "num" THEN IntToString(x.v[1])
    ELSE IF x.t = "str" THEN <<"\"">> \o x.v \o <<"\"">>
    ELSE IF x.t = "arr" THEN <<"[">> \o JoinValues(x.v, 1) \o <<"]">>
    ELSE <<"{">> \o JoinProps(x.v, 1) \o <<"}">>

(***************************************************************************)
(* The parse engine: parseJsonl, parseLines, buildResult                   *)
(*                                                                         *)
(* A record is [index, data, raw, error].  data is a JSON value; the       *)
(* JavaScript null of a failed line and the value parsed from the text     *)
(* null are the same value, JNull.  error is absent (NoError) or carries   *)
(* the message.  A function's outcome is [threw, path, value]: whether an  *)
(* exception left it, which return statement produced the value, and the   *)
(* ParseResult.                                                            *)
(***************************************************************************)

NoError == [present |-> FALSE, msg |-> <<>>]

\* MalformedMessage naming the 0-based loop index
MalformedMessageZeroBased(i) ==
    [present |-> TRUE, msg |-> <<"Malformed JSON on line ">> \o NatToString(i)]

\* `Malformed JSON on line ${i + 1}` for the loop index i
MalformedMessage(i) ==
    [present |-> TRUE, msg |-> <<"Malformed JSON on line ">> \o NatToString(i + 1)]

EmptyResult == [records |-> <<>>, columns |-> <<>>, errorCount |-> 0]

Returned(path, value) == [threw |-> FALSE, path |-> path, value |-> value]

Thrown == [threw |-> TRUE, path |-> "none", value |-> EmptyResult]

\* An array used in place of the Set: add without looking for the key
SetAddNoDedup(set, k) == Append(set, k)

\* A column set kept at module level and never cleared: a call starts from
\* the columns the previous call left
LeakedColumnSet == result.value.columns

\* const columnSet = new Set<string>()
NewColumnSet == <<>>

\* Set.prototype.add on a Set kept in insertion order
SetAdd(set, k) ==
    IF \E i \in 1..Len(set) : set[i] = k THEN set ELSE Append(set, k)

RECURSIVE AddAll(_, _, _)
AddAll(set, keys, i) ==
    IF i > Len(keys) THEN set ELSE AddAll(SetAdd(set, keys[i]), keys, i + 1)

\* AddColumns without the Array.isArray test: the keys of an array are its
\* indices
AddColumnsNoArrayTest(columnSet, data) ==
    IF IsArray(data)
    THEN AddAll(columnSet, [i \in 1..Len(data.v) |-> NatToString(i - 1)], 1)
    ELSE IF IsObjectLike(data) THEN AddAll(columnSet, ObjectKeys(data), 1)
    ELSE columnSet

\* if (typeof data === "object" && data !== null && !Array.isArray(data))
\*     for (const key of Object.keys(data)) columnSet.add(key)
AddColumns(columnSet, data) ==
    IF IsObjectLike(data) /\ ~IsArray(data)
    THEN AddAll(columnSet, ObjectKeys(data), 1)
    ELSE columnSet

\* PushParsed with the index counting the parsed lines only
PushParsedOwnCount(acc, data, line) ==
    [acc EXCEPT
        !.columnSet = AddColumns(acc.columnSet, data),
        !.records = Append(acc.records,
            [index |-> Len(acc.records) - acc.errorCount, data |-> data,
             raw |-> line, error |-> NoError])]

\* PushParsed wrapping a non-object value as the array path does
PushParsedWrapped(acc, data, line) ==
    LET d == IF IsObjectLike(data) THEN data
             ELSE JObj(<<[k |-> <<"v", "a", "l", "u", "e">>, v |-> data]>>)
    IN  [acc EXCEPT
            !.columnSet = AddColumns(acc.columnSet, d),
            !.records = Append(acc.records,
                [index |-> Len(acc.records), data |-> d, raw |-> line,
                 error |-> NoError])]

\* The try block of the loop of parseLines for a line that parsed
PushParsed(acc, data, line) ==
    [acc EXCEPT
        !.columnSet = AddColumns(acc.columnSet, data),
        !.records = Append(acc.records,
            [index |-> Len(acc.records), data |-> data, raw |-> line,
             error |-> NoError])]

\* PushFailed that counts the failure and emits no record
PushFailedNoRecord(acc, line, i) ==
    [acc EXCEPT !.errorCount = acc.errorCount + 1]

\* PushFailed that emits the record and does not count it
PushFailedUncounted(acc, line, i) ==
    [acc EXCEPT
        !.records = Append(acc.records,
            [index |-> Len(acc.records), data |-> JNull, raw |-> line,
             error |-> MalformedMessage(i)])]

\* The catch block of the loop of parseLines, i the loop index
PushFailed(acc, line, i) ==
    [acc EXCEPT
        !.errorCount = acc.errorCount + 1,
        !.records = Append(acc.records,
            [index |-> Len(acc.records), data |-> JNull, raw |-> line,
             error |-> MalformedMessage(i)])]

\* LineStep without `if (line === "") continue`
LineStepNoSkip(acc, lines, i) ==
    LET line == trim(lines[i + 1])
        r    == JSONparse(line)
    IN  IF r.ok THEN PushParsed(acc, r.val, line)
        ELSE PushFailed(acc, line, i)

\* One turn of the loop of parseLines, i the loop index (0-based)
LineStep(acc, lines, i) ==
    LET line == trim(lines[i + 1])
        r    == JSONparse(line)
    IN  IF line = <<>> THEN acc
        ELSE IF r.ok THEN PushParsed(acc, r.val, line)
        ELSE PushFailed(acc, line, i)

RECURSIVE LinesLoop(_, _, _)
LinesLoop(acc, lines, i) ==
    IF i >= Len(lines) \/ acc.threw THEN acc
    ELSE LinesLoop(LineStep(acc, lines, i), lines, i + 1)

parseLines(t) ==
    LET acc == LinesLoop([records |-> <<>>, columnSet |-> NewColumnSet,
                          errorCount |-> 0, threw |-> FALSE], split(t), 0)
    IN  IF acc.threw THEN Thrown
        ELSE Returned("lines", [records |-> acc.records, columns |-> acc.columnSet,
                                errorCount |-> acc.errorCount])

RECURSIVE BuildLoop(_, _, _, _)
BuildLoop(items, i, columnSet, records) ==
    IF i > Len(items)
    THEN [records |-> records, columns |-> columnSet, errorCount |-> 0]
    ELSE BuildLoop(items, i + 1, AddColumns(columnSet, items[i].data),
                   Append(records, [index |-> items[i].index, data |-> items[i].data,
                                    raw |-> items[i].raw, error |-> NoError]))

buildResult(items) == BuildLoop(items, 1, NewColumnSet, <<>>)

\* ArrayItem whose raw is the serialized data, wrapper included
ArrayItemRawOfData(item, i) ==
    LET data == IF IsObjectLike(item) THEN item
                ELSE JObj(<<[k |-> <<"v", "a", "l", "u", "e">>, v |-> item]>>)
    IN  [data |-> data, raw |-> JSONstringify(data), index |-> i]

\* The callback of parsed.map: the item for the element at 0-based position i
ArrayItem(item, i) ==
    [data  |-> IF IsObjectLike(item) THEN item
               ELSE JObj(<<[k |-> <<"v", "a", "l", "u", "e">>, v |-> item]>>),
     raw   |-> JSONstringify(item),
     index |-> i]

\* ObjectItem whose raw is re-serialized like an array element's
ObjectItemReserialized(parsed, trimmed) ==
    [data |-> parsed, raw |-> JSONstringify(parsed), index |-> 0]

\* The single item of a top-level object
ObjectItem(parsed, trimmed) == [data |-> parsed, raw |-> trimmed, index |-> 0]

\* parseJsonl without its try/catch: the SyntaxError leaves the function
DocumentRethrown(t) == Thrown

\* DocumentFailed handing the trimmed text to the line parser
DocumentFailedTrimmed(t) == parseLines(trim(t))

\* The catch block of parseJsonl: fall through to the line parser
DocumentFailed(t) == parseLines(t)

parseJsonl(t) ==
    LET trimmed == trim(t)
        r       == JSONparse(trimmed)
    IN  IF startsWith(trimmed, "[") \/ startsWith(trimmed, "{")
        THEN IF ~r.ok THEN DocumentFailed(t)
             ELSE IF IsArray(r.val)
                  THEN Returned("array",
                           buildResult([i \in 1..Len(r.val.v) |->
                                           ArrayItem(r.val.v[i], i - 1)]))
             ELSE IF IsObjectLike(r.val)
                  THEN Returned("object", buildResult(<<ObjectItem(r.val, trimmed)>>))
             ELSE parseLines(t)
        ELSE parseLines(t)

(***************************************************************************)
(* Inputs                                                                  *)
(***************************************************************************)

\* Largest number of lines of an input text
MaxLines == 3

Fragments ==
    { <<>>,
      <<" ">>,
      <<"{", "\"", "a", "\"", ":", "1", "}">>,
      <<"{", "\"", "b", "\"", ":", "1", ",", "\"", "a", "\"", ":", "2", "}">>,
      <<"{", "\"", "a", "\"", ":", "1", ",", "\"", "0", "\"", ":", "2", ",",
        "\"", "a", "\"", ":", "3", "}">>,
      <<"x">>,
      <<"n", "u", "l", "l">>,
      <<"1">>,
      <<"[", "1", ",">>,
      <<"2", "]">>,
      <<"[", "[", "1", "]", ",", "\"", "a", "\"", ",", "n", "u", "l", "l", ",",
        "{", "\"", "b", "\"", ":", "t", "r", "u", "e", "}", "]">>,
      <<" ", "\"", "a", "\"", "\r">>,
      <<"[", " ", "-", "0", " ", "]">>,
      <<"[", "]">>,
      <<"{", "\"", "b", "\"", ":">>,
      <<"1", "}">> }

RECURSIVE Join(_, _)
Join(ls, i) ==
    IF i > Len(ls) THEN <<>>
    ELSE (IF i > 1 THEN <<"\n">> ELSE <<>>) \o ls[i] \o Join(ls, i + 1)

Inputs ==
    UNION { { Join(ls, 1) : ls \in [1..n -> Fragments] } : n \in 1..MaxLines }

(***************************************************************************)
(* The viewer (src/components/jsonl-viewer.tsx) and its drop zone          *)
(*                                                                         *)
(* viewer holds the state hooks of JsonlViewer, dz those of the mounted    *)
(* DropZone.  The drop zone is mounted exactly while no file is loaded; a  *)
(* state setter of an unmounted component instance has no effect, so a     *)
(* read started by an instance that was unmounted since is marked stale.   *)
(***************************************************************************)

\* null
Null == [null |-> TRUE]

\* selectedRecord === null
NoSelection == -1

Views == {"table", "tree", "raw"}

\* Largest number of reads (FileReader, clipboard) in flight at once
MaxPending == 2


\* The files the user can drop or pick
FileA ==
    [name |-> "a.jsonl",
     text |-> <<"{", "\"", "a", "\"", ":", "1", "}", "\n", "x", "\n",
                "{", "\"", "b", "\"", ":", "\"", "A", "\"", "}">>]

FileE == [name |-> "e.jsonl", text |-> <<" ", "\n">>]

Files == {FileA, FileE}

\* The texts the clipboard can hold
ClipboardTexts == { <<"[", "1", ",", "2", "]">>, <<" ">> }

\* The values typed into the search box
Queries == { <<>>, <<" ">>, <<"A">>, <<"x">> }

UpperCase == <<"A", "B", "X">>
LowerCase == <<"a", "b", "x">>

\* String.prototype.toLowerCase on the letters the inputs contain
toLowerCase(s) ==
    [i \in 1..Len(s) |->
        IF \E u \in 1..Len(UpperCase) : UpperCase[u] = s[i]
        THEN LowerCase[CHOOSE u \in 1..Len(UpperCase) : UpperCase[u] = s[i]]
        ELSE s[i]]

\* String.prototype.includes
includes(s, q) ==
    \E i \in 1..(Len(s) - Len(q) + 1) : SubSeq(s, i, i + Len(q) - 1) = q

InitialViewer(view) ==
    [file |-> Null, parseResult |-> Null, parseTime |-> 0, view |-> view,
     selectedRecord |-> NoSelection, detailOpen |-> FALSE, searchQuery |-> <<>>,
     wordWrap |-> FALSE, showKeyboardHelp |-> FALSE]

\* The state setters of handleFileLoad, given the outcome r of the parse; a
\* parse that threw would leave handleFileLoad before any of them
StoreResult(v, file, r, elapsed) ==
    IF r.threw THEN v
    ELSE [v EXCEPT !.file = file,
                   !.parseResult = r.value,
                   !.parseTime = elapsed,
                   !.selectedRecord = NoSelection,
                   !.detailOpen = FALSE,
                   !.searchQuery = <<>>]

\* handleFileLoad that keeps the selection, the panel and the query
handleFileLoadKeepsSelection(v, name, size, t, elapsed) ==
    [v EXCEPT !.file = [name |-> name, size |-> size, rawText |-> t],
              !.parseResult = parseJsonl(t).value,
              !.parseTime = elapsed]

handleFileLoad(v, name, size, t, elapsed) ==
    StoreResult(v, [name |-> name, size |-> size, rawText |-> t], parseJsonl(t), elapsed)

\* handleReset that leaves the parse time and the query
handleResetKeepsQuery(v) ==
    [v EXCEPT !.file = Null, !.parseResult = Null,
              !.selectedRecord = NoSelection, !.detailOpen = FALSE]

handleReset(v) ==
    [v EXCEPT !.file = Null, !.parseResult = Null, !.parseTime = 0,
              !.selectedRecord = NoSelection, !.detailOpen = FALSE,
              !.searchQuery = <<>>]

\* filteredRecords comparing the raw text as it is
filteredRecordsCaseSensitive(parseResult, searchQuery) ==
    IF parseResult = Null THEN <<>>
    ELSE IF trim(searchQuery) = <<>> THEN parseResult.records
    ELSE SelectSeq(parseResult.records,
                   LAMBDA r : includes(r.raw, toLowerCase(searchQuery)))

\* The useMemo of filteredRecords
filteredRecords(parseResult, searchQuery) ==
    IF parseResult = Null THEN <<>>
    ELSE IF trim(searchQuery) = <<>> THEN parseResult.records
    ELSE SelectSeq(parseResult.records,
                   LAMBDA r : includes(toLowerCase(r.raw), toLowerCase(searchQuery)))

\* A search that stores the filtered list as the records
setSearchQueryFiltering(v, q) ==
    [v EXCEPT !.searchQuery = q,
              !.parseResult = IF v.parseResult = Null THEN Null
                              ELSE [v.parseResult EXCEPT
                                       !.records = filteredRecords(v.parseResult, q)]]

\* onChange of SearchBar
setSearchQuery(v, q) == [v EXCEPT !.searchQuery = q]

\* onViewChange of ViewSwitcher
setView(v, view) == [v EXCEPT !.view = view]

handleSelectRecord(v, index) ==
    [v EXCEPT !.selectedRecord = index, !.detailOpen = TRUE]

\* records.findIndex((r) => r.index === selectedRecord), 0-based, -1 if none
findIndex(records, index) ==
    IF \E k \in 1..Len(records) : records[k].index = index
    THEN (CHOOSE k \in 1..Len(records) :
              records[k].index = index
              /\ \A j \in 1..(k - 1) : records[j].index # index) - 1
    ELSE -1

\* handleNavigateRecord that steps through all records of the result
handleNavigateRecordAllRecords(v, direction) ==
    LET records    == IF v.parseResult = Null THEN <<>> ELSE v.parseResult.records
        currentIdx == findIndex(records, v.selectedRecord)
        newIdx     == IF direction = "prev" THEN currentIdx - 1 ELSE currentIdx + 1
    IN  IF v.selectedRecord = NoSelection \/ v.parseResult = Null THEN v
        ELSE IF currentIdx = -1 THEN v
        ELSE IF newIdx >= 0 /\ newIdx < Len(records)
             THEN [v EXCEPT !.selectedRecord = records[newIdx + 1].index]
        ELSE v

handleNavigateRecord(v, direction) ==
    LET records    == filteredRecords(v.parseResult, v.searchQuery)
        currentIdx == findIndex(records, v.selectedRecord)
        newIdx     == IF direction = "prev" THEN currentIdx - 1 ELSE currentIdx + 1
    IN  IF v.selectedRecord = NoSelection \/ v.parseResult = Null THEN v
        ELSE IF currentIdx = -1 THEN v
        ELSE IF newIdx >= 0 /\ newIdx < Len(records)
             THEN [v EXCEPT !.selectedRecord = records[newIdx + 1].index]
        ELSE v

\* The keys the keydown handler tells apart
Keys == {"1", "2", "3", "k", "d", "Escape", "?", "ArrowUp", "ArrowDown"}

\* An Escape branch that closes and clears everything at once
onEscapeClosesAll(v) ==
    [v EXCEPT !.detailOpen = FALSE, !.searchQuery = <<>>, !.showKeyboardHelp = FALSE]

\* The Escape branch of the keydown handler
onEscape(v) ==
    IF v.detailOpen THEN [v EXCEPT !.detailOpen = FALSE]
    ELSE IF v.searchQuery # <<>> THEN [v EXCEPT !.searchQuery = <<>>]
    ELSE IF v.showKeyboardHelp THEN [v EXCEPT !.showKeyboardHelp = FALSE]
    ELSE v

\* The window keydown handler; e = [key, meta, inInput]
onKeyDown(v, e) ==
    IF e.meta /\ e.key = "1" THEN setView(v, "table")
    ELSE IF e.meta /\ e.key = "2" THEN setView(v, "tree")
    ELSE IF e.meta /\ e.key = "3" THEN setView(v, "raw")
    ELSE IF e.meta /\ e.key = "k" /\ v.file # Null THEN v
    ELSE IF e.meta /\ e.key = "d" THEN v
    ELSE IF e.key = "Escape" THEN onEscape(v)
    ELSE IF e.key = "?" /\ ~e.meta /\ ~e.inInput
         THEN [v EXCEPT !.showKeyboardHelp = ~v.showKeyboardHelp]
    ELSE IF v.detailOpen /\ e.key = "ArrowUp" THEN handleNavigateRecord(v, "prev")
    ELSE IF v.detailOpen /\ e.key = "ArrowDown" THEN handleNavigateRecord(v, "next")
    ELSE v

\* !text.trim() compared without trimming
IsEmptyString(t) == t = <<>>

\* !text.trim()
IsBlankText(t) == trim(t) = <<>>

\* The state of a DropZone that was just mounted
FreshDropZone == [error |-> "null", isLoading |-> FALSE]

\* The state setters of readFile before the read starts
readFileStarted(d) == [error |-> "null", isLoading |-> TRUE]

\* A read in flight: what was asked for and whether the DropZone instance
\* that asked was unmounted since
Read(kind, name, t) == [kind |-> kind, name |-> name, text |-> t, stale |-> FALSE]

Remove(seq, i) == SubSeq(seq, 1, i - 1) \o SubSeq(seq, i + 1, Len(seq))

\* The DropZone unmounts: the reads it started outlive it
MarkStale(seq) == [i \in 1..Len(seq) |-> [seq[i] EXCEPT !.stale = TRUE]]

\* What lastEvent remembers of a handler: its name, and for the completion of
\* a read the kind of read, the text delivered and whether the DropZone that
\* started the read was still mounted
Event(name, kind, t, live) == [name |-> name, kind |-> kind, text |-> t, live |-> live]

\* The page before any file was loaded, with the view in view
ViewerIdle(view) ==
    /\ viewer = InitialViewer(view)
    /\ dz = FreshDropZone
    /\ pending = <<>>
    /\ sorting = "none"
    /\ lastEvent = Event("init", "none", <<>>, FALSE)
    /\ currentIndex = 0
    /\ lastStarted = "none"

(***************************************************************************)
(* The caller: one call of parseJsonl on an input text                     *)
(***************************************************************************)

NoCall == [made |-> FALSE, text |-> <<>>, result |-> Returned("none", EmptyResult),
           other |-> FALSE]

\* The history after a call on t that returned r: the first call is kept,
\* and a later call on another text is noted
Recorded(h, t, r) ==
    IF ~h.made THEN [made |-> TRUE, text |-> t, result |-> r, other |-> FALSE]
    ELSE IF t # h.text THEN [h EXCEPT !.other = TRUE]
    ELSE h

Init ==
    /\ text \in Inputs
    /\ pc = "ready"
    /\ result = Returned("none", EmptyResult)
    /\ first = NoCall
    /\ ViewerIdle("table")

\* const result = parseJsonl(text)
Parse ==
    /\ pc = "ready"
    /\ result' = parseJsonl(text)
    /\ pc' = IF result'.threw THEN "threw" ELSE "returned"
    /\ first' = Recorded(first, text, result')
    /\ UNCHANGED text
    /\ UNCHANGED viewerVars

Next == Parse

Spec == Init /\ [][Next]_vars

(***************************************************************************)
(* A caller that calls parseJsonl again and again                          *)
(***************************************************************************)

CallTexts ==
    { <<>>,
      <<"x">>,
      <<"{", "\"", "a", "\"", ":", "1", "}">>,
      <<"{", "\"", "b", "\"", ":", "1", ",", "\"", "a", "\"", ":", "2", "}">>,
      <<"{", "\"", "a", "\"", ":", "1", "}", "\n", "x">>,
      <<"[", "1", ",", "{", "\"", "b", "\"", ":", "1", "}", "]">>,
      <<"{", "\"", "b", "\"", ":", "1", "}", "\n", "{", "\"", "a", "\"", ":", "1", "}">> }

InitCalls ==
    /\ text \in CallTexts
    /\ pc = "ready"
    /\ result = Returned("none", EmptyResult)
    /\ first = NoCall
    /\ ViewerIdle("table")

\* The caller takes another text; the previous result is still in its hands
NewInput ==
    /\ pc = "returned"
    /\ text' \in CallTexts
    /\ pc' = "ready"
    /\ UNCHANGED <<result, first>>
    /\ UNCHANGED viewerVars

NextCalls == Parse \/ NewInput

SpecCalls == InitCalls /\ [][NextCalls]_vars

(***************************************************************************)
(* The page: a user dropping, picking and pasting texts and using the      *)
(* viewer, with FileReader and clipboard reads completing in any order     *)
(***************************************************************************)

\* What localStorage.getItem("beauties-view") || "table" can give: a view, or
\* a string stored by something else
StoredViews == Views \cup {"grid"}

\* The times a parse is measured to take
ElapsedTimes == {0, 5}

InitViewer ==
    /\ text = <<>>
    /\ pc = "ready"
    /\ result = Returned("none", EmptyResult)
    /\ first = NoCall
    /\ \E view \in StoredViews : ViewerIdle(view)

\* !file || !parseResult is false: the viewer is rendered, not the DropZone
Loaded == viewer.file # Null /\ viewer.parseResult # Null

UIEvent == Event("ui", "none", <<>>, FALSE)

\* A state setter of the DropZone called by the read r
SetDropZone(r, d) == IF r.stale THEN dz ELSE d

\* handleDrop / handleFileChange: readFile(file) up to reader.readAsText
ReadStarted(f) ==
    /\ ~Loaded
    /\ Len(pending) < MaxPending
    /\ pending' = Append(pending, Read("file", f.name, f.text))
    /\ dz' = readFileStarted(dz)
    /\ lastEvent' = Event("start", "file", <<>>, TRUE)
    /\ UNCHANGED <<viewer, sorting, currentIndex>>
    /\ UNCHANGED engineVars

\* A file is dropped or picked
StartRead == \E f \in Files : ReadStarted(f) /\ UNCHANGED lastStarted

\* handlePaste up to the await of navigator.clipboard.readText()
PasteStarted ==
    /\ ~Loaded
    /\ Len(pending) < MaxPending
    /\ pending' = Append(pending, Read("paste", "clipboard-paste.jsonl", <<>>))
    /\ dz' = [dz EXCEPT !.error = "null"]
    /\ lastEvent' = Event("start", "paste", <<>>, TRUE)
    /\ UNCHANGED <<viewer, sorting, currentIndex>>
    /\ UNCHANGED engineVars

\* The paste button is clicked or Cmd/Ctrl+V is pressed
StartPaste == PasteStarted /\ UNCHANGED lastStarted

\* onFileLoad(name, size, t) called by the read pending[i]
Accept(i, name, t) ==
    /\ \E elapsed \in ElapsedTimes :
          viewer' = handleFileLoad(viewer, name, Len(t), t, elapsed)
    /\ dz' = FreshDropZone
    /\ pending' = MarkStale(Remove(pending, i))
    /\ sorting' = IF Loaded /\ viewer.view = "table" THEN sorting ELSE "none"
    /\ currentIndex' = IF Loaded /\ viewer.view = "tree" THEN currentIndex ELSE 0
    /\ UNCHANGED lastStarted
    /\ lastEvent' = Event(IF Loaded THEN "replace" ELSE "load",
                          pending[i].kind, t, ~pending[i].stale)
    /\ UNCHANGED engineVars

\* The read pending[i] ends with an error message and no call of onFileLoad
Refuse(i, name, t, message) ==
    /\ dz' = SetDropZone(pending[i], [dz EXCEPT !.error = message])
    /\ pending' = Remove(pending, i)
    /\ lastEvent' = Event(name, pending[i].kind, t, ~pending[i].stale)
    /\ UNCHANGED <<viewer, sorting, currentIndex, lastStarted>>
    /\ UNCHANGED engineVars

\* reader.onload
FileLoaded ==
    \E i \in 1..Len(pending) :
        /\ pending[i].kind = "file"
        /\ IF IsBlankText(pending[i].text)
           THEN /\ dz' = SetDropZone(pending[i],
                                     [error |-> "File is empty", isLoading |-> FALSE])
                /\ pending' = Remove(pending, i)
                /\ lastEvent' = Event("reject", "file", pending[i].text, ~pending[i].stale)
                /\ UNCHANGED <<viewer, sorting, currentIndex, lastStarted>>
                /\ UNCHANGED engineVars
           ELSE Accept(i, pending[i].name, pending[i].text)

\* reader.onerror
FileFailed ==
    \E i \in 1..Len(pending) :
        /\ pending[i].kind = "file"
        /\ dz' = SetDropZone(pending[i],
                             [error |-> "Failed to read file", isLoading |-> FALSE])
        /\ pending' = Remove(pending, i)
        /\ lastEvent' = Event("fail", "file", <<>>, ~pending[i].stale)
        /\ UNCHANGED <<viewer, sorting, currentIndex, lastStarted>>
        /\ UNCHANGED engineVars

\* handlePaste after navigator.clipboard.readText() resolved
PasteResolved ==
    \E i \in 1..Len(pending), t \in ClipboardTexts :
        /\ pending[i].kind = "paste"
        /\ IF IsBlankText(t)
           THEN Refuse(i, "reject", t, "Clipboard is empty")
           ELSE Accept(i, pending[i].name, t)

\* handlePaste after navigator.clipboard.readText() rejected
PasteRejected ==
    \E i \in 1..Len(pending) :
        /\ pending[i].kind = "paste"
        /\ \E message \in {"Clipboard access denied - please allow clipboard permissions",
                          "Failed to read clipboard"} :
              Refuse(i, "fail", <<>>, message)

\* The "New file" button of AppHeader
Reset ==
    /\ Loaded
    /\ viewer' = handleReset(viewer)
    /\ dz' = FreshDropZone
    /\ sorting' = "none"
    /\ currentIndex' = 0
    /\ lastEvent' = Event("reset", "none", <<>>, FALSE)
    /\ UNCHANGED <<pending, lastStarted>>
    /\ UNCHANGED engineVars

\* A presentation handler changed the viewer to v
Presented(v) ==
    /\ viewer' = v
    /\ sorting' = IF Loaded /\ v.view = "table" /\ viewer.view = "table"
                  THEN sorting ELSE "none"
    /\ currentIndex' = IF Loaded /\ v.view = "tree" /\ viewer.view = "tree"
                       THEN currentIndex ELSE 0
    /\ lastEvent' = UIEvent
    /\ UNCHANGED <<dz, pending, lastStarted>>
    /\ UNCHANGED engineVars

\* Typing in the SearchBar, or its clear button
Search == Loaded /\ \E q \in Queries : Presented(setSearchQuery(viewer, q))

\* The indices of the records a click can reach in the view shown: the rows
\* of TableView come from the filtered list, the lines of RawView from all
\* records; TreeView never calls the onSelectRecord it is given
Clickable ==
    IF viewer.view = "table"
    THEN {r.index : r \in {filteredRecords(viewer.parseResult, viewer.searchQuery)[k] :
              k \in 1..Len(filteredRecords(viewer.parseResult, viewer.searchQuery))}}
    ELSE IF viewer.view = "raw"
    THEN {viewer.parseResult.records[k].index : k \in 1..Len(viewer.parseResult.records)}
    ELSE {}

\* A click on a row, a record or a line
SelectRecord == Loaded /\ \E index \in Clickable : Presented(handleSelectRecord(viewer, index))

\* detailOpen && selectedData: the RecordDetail panel is rendered
DetailShown ==
    /\ Loaded
    /\ viewer.detailOpen
    /\ \E k \in 1..Len(viewer.parseResult.records) :
          viewer.parseResult.records[k].index = viewer.selectedRecord

\* The prev / next buttons of RecordDetail
Navigate ==
    DetailShown /\ \E direction \in {"prev", "next"} :
        Presented(handleNavigateRecord(viewer, direction))

\* The close button of RecordDetail
CloseDetail == DetailShown /\ Presented([viewer EXCEPT !.detailOpen = FALSE])

\* A tab of the ViewSwitcher
SwitchView == Loaded /\ \E view \in Views : Presented(setView(viewer, view))

\* The key events tried: every key with and without Cmd/Ctrl; the target,
\* which the handler looks at for the ? key only, is varied for that key
KeyEvents ==
    {e \in [key : Keys, meta : BOOLEAN, inInput : BOOLEAN] : e.inInput => e.key = "?"}

\* A key pressed anywhere on the page
KeyDown == \E e \in KeyEvents : Presented(onKeyDown(viewer, e))

\* The wrap button of RawView
ToggleWordWrap ==
    /\ Loaded
    /\ viewer.view = "raw"
    /\ Presented([viewer EXCEPT !.wordWrap = ~viewer.wordWrap])

\* The help button of AppHeader, or closing the KeyboardHelp dialog
ToggleKeyboardHelp ==
    /\ Loaded
    /\ Presented([viewer EXCEPT !.showKeyboardHelp = ~viewer.showKeyboardHelp])

\* The next sorting state of a column header: none, ascending, descending
ToggledSorting(st) ==
    IF st = "none" THEN "asc" ELSE IF st = "asc" THEN "desc" ELSE "none"

\* A click on a column header of TableView
ToggleSort ==
    /\ Loaded
    /\ viewer.view = "table"
    /\ Len(viewer.parseResult.columns) > 0
    /\ sorting' = ToggledSorting(sorting)
    /\ lastEvent' = UIEvent
    /\ UNCHANGED <<viewer, dz, pending, currentIndex, lastStarted>>
    /\ UNCHANGED engineVars

NextViewer ==
    \/ StartRead
    \/ StartPaste
    \/ FileLoaded
    \/ FileFailed
    \/ PasteResolved
    \/ PasteRejected
    \/ Reset
    \/ Search
    \/ SelectRecord
    \/ Navigate
    \/ CloseDetail
    \/ SwitchView
    \/ KeyDown
    \/ ToggleWordWrap
    \/ ToggleKeyboardHelp
    \/ ToggleSort

SpecViewer == InitViewer /\ [][NextViewer]_vars

(***************************************************************************)
(* The tree view: the page with the handlers of TreeView and those that    *)
(* change the list it is given                                             *)
(***************************************************************************)

Max(a, b) == IF a >= b THEN a ELSE b

Min(a, b) == IF a <= b THEN a ELSE b

\* handlePrev
handlePrev(i) == Max(0, i - 1)

\* handleNext, n = records.length
handleNext(i, n) == Min(n - 1, i + 1)

\* handleIndexInput, val = Number.parseInt(e.target.value, 10)
handleIndexInput(i, n, val) == IF val >= 1 /\ val <= n THEN val - 1 ELSE i

\* The records prop of TreeView
TreeRecords == filteredRecords(viewer.parseResult, viewer.searchQuery)

\* TreeView is rendered with its navigation bar
TreeShown == Loaded /\ viewer.view = "tree" /\ Len(TreeRecords) > 0

\* A handler of TreeView set the position to i
TreeMoved(i) ==
    /\ currentIndex' = i
    /\ lastEvent' = UIEvent
    /\ UNCHANGED <<viewer, dz, pending, sorting, lastStarted>>
    /\ UNCHANGED engineVars

\* The previous button, disabled at position 0
TreePrev == TreeShown /\ currentIndex # 0 /\ TreeMoved(handlePrev(currentIndex))

\* The next button, disabled at the last position
TreeNext ==
    /\ TreeShown
    /\ currentIndex # Len(TreeRecords) - 1
    /\ TreeMoved(handleNext(currentIndex, Len(TreeRecords)))

\* A number typed into the record number input
TreeGoTo ==
    /\ TreeShown
    /\ \E val \in 0..(Len(TreeRecords) + 1) :
          TreeMoved(handleIndexInput(currentIndex, Len(TreeRecords), val))

NextTree ==
    \/ StartRead
    \/ FileLoaded
    \/ Reset
    \/ Search
    \/ SwitchView
    \/ TreePrev
    \/ TreeNext
    \/ TreeGoTo

SpecTree == InitViewer /\ [][NextTree]_vars

(***************************************************************************)
(* The reads: the drop zone with the order in which reads are started      *)
(* recorded in lastStarted                                                 *)
(***************************************************************************)

\* A file is dropped or picked, and noted as the read started last
StartReadNoted == \E f \in Files : ReadStarted(f) /\ lastStarted' = f.name

\* A paste is asked for, and noted as the read started last
StartPasteNoted == PasteStarted /\ lastStarted' = "clipboard-paste.jsonl"

NextReads ==
    \/ StartReadNoted
    \/ StartPasteNoted
    \/ FileLoaded
    \/ FileFailed
    \/ PasteResolved
    \/ PasteRejected
    \/ Reset

SpecReads == InitViewer /\ [][NextReads]_vars

(***************************************************************************)
(* Properties of the parse engine                                          *)
(***************************************************************************)

recs == result.value.records

\* The lines of the input that are not blank, in order
NonBlankLines(t) == SelectSeq(split(t), LAMBDA l : trim(l) # <<>>)

\* The whole-document attempt of the dispatcher on an input
WholeAttempted(t) == startsWith(trim(t), "[") \/ startsWith(trim(t), "{")
WholeParses(t) == WholeAttempted(t) /\ JSONparse(trim(t)).ok

IsRecord(r) ==
    /\ DOMAIN r = {"index", "data", "raw", "error"}
    /\ r.index \in Nat
    /\ r.error.present \in BOOLEAN

IsParseResult(v) ==
    /\ DOMAIN v = {"records", "columns", "errorCount"}
    /\ \A k \in 1..Len(v.records) : IsRecord(v.records[k])
    /\ v.errorCount \in Nat

\* C1: parse is total: every call returns one ParseResult and no exception
\* leaves it, also when the whole-document attempt fails and when lines
\* fail to parse.
C1_ParseIsTotal ==
    /\ pc \in {"ready", "returned"}
    /\ (pc = "returned" =>
            /\ ~result.threw
            /\ result.path \in {"array", "object", "lines"}
            /\ IsParseResult(result.value))

\* A call returned after a failed whole-document attempt in which every
\* line was malformed
C1_Witness ==
    /\ pc = "returned"
    /\ WholeAttempted(text) /\ ~WholeParses(text)
    /\ Len(recs) >= 2
    /\ \A k \in 1..Len(recs) : recs[k].error.present

\* C2: line-oriented parsing gives one record per non-blank line, in line
\* order, each with the trimmed text of its line as raw, whatever lines
\* fail.
C2_OneRecordPerLine ==
    (pc = "returned" /\ result.path = "lines") =>
        /\ Len(recs) = Len(NonBlankLines(text))
        /\ \A k \in 1..Len(recs) : recs[k].raw = trim(NonBlankLines(text)[k])

\* A line that parsed, then a failed line, then another that parsed
C2_Witness ==
    /\ pc = "returned" /\ result.path = "lines"
    /\ Len(recs) = 3
    /\ ~recs[1].error.present /\ recs[2].error.present /\ ~recs[3].error.present

\* C3: the indices of the records are 0..N-1 in sequence order on every
\* path; a blank line takes no index, a failed line takes one.
C3_IndicesContiguous ==
    pc = "returned" => \A k \in 1..Len(recs) : recs[k].index = k - 1

\* Line path: a blank line, then a failed line, then a line that parsed
C3_Witness ==
    /\ pc = "returned" /\ result.path = "lines"
    /\ Len(split(text)) = 3 /\ trim(split(text)[1]) = <<>>
    /\ Len(recs) = 2
    /\ recs[1].error.present /\ ~recs[2].error.present

\* C4: every record has exactly one of: data non-null, error present.
C4_DataXorError ==
    pc = "returned" =>
        \A k \in 1..Len(recs) : (recs[k].data # JNull) # recs[k].error.present

\* C5: errorCount is the number of records that carry an error, and 0 on
\* the whole-document path.
C5_ErrorCount ==
    pc = "returned" =>
        /\ result.value.errorCount =
               Cardinality({k \in 1..Len(recs) : recs[k].error.present})
        /\ (result.path \in {"array", "object"} => result.value.errorCount = 0)

\* Two failed lines and one that parsed
C5_Witness ==
    /\ pc = "returned"
    /\ Len(recs) = 3
    /\ result.value.errorCount = 2

\* C6: the whole-document result is returned exactly when the trimmed text
\* starts with [ or { and parses as one document; otherwise the result is
\* the line-oriented result over the untrimmed text.
C6_Dispatch ==
    pc = "returned" =>
        /\ (result.path \in {"array", "object"} <=> WholeParses(text))
        /\ (~WholeParses(text) => result = parseLines(text))

\* A failed whole-document attempt on a text with a leading blank line
C6_Witness ==
    /\ pc = "returned"
    /\ WholeAttempted(text) /\ ~WholeParses(text)
    /\ text # trim(text) /\ trim(split(text)[1]) = <<>>
    /\ result.path = "lines" /\ Len(recs) > 0

\* The line number an error message names
LineNamed(r) == StringToNat(SubSeq(r.error.msg, 2, Len(r.error.msg)))

\* C7: the message of a failed line names the 1-based position of that
\* line among all lines of the untrimmed input, blank ones counted.
C7_PhysicalLineNumber ==
    pc = "returned" =>
        \A k \in 1..Len(recs) :
            recs[k].error.present =>
                LET n == LineNamed(recs[k])
                IN  /\ recs[k].error.msg[1] = "Malformed JSON on line "
                    /\ n \in 1..Len(split(text))
                    /\ trim(split(text)[n]) = recs[k].raw
                    /\ ~JSONparse(trim(split(text)[n])).ok
                    /\ Cardinality({m \in 1..(n - 1) : trim(split(text)[m]) # <<>>})
                           = k - 1

\* A failed line after a leading blank line that the dispatcher trimmed
\* away, named by a number other than its record's position
C7_Witness ==
    /\ pc = "returned"
    /\ WholeAttempted(text)
    /\ trim(split(text)[1]) = <<>>
    /\ \E k \in 1..Len(recs) : recs[k].error.present /\ LineNamed(recs[k]) # k

\* The value of the whole document
Document == JSONparse(trim(text)).val

\* C8: a top-level array gives one record per element, in order, with the
\* element's position as index, its serialization as raw, no error, and
\* errorCount 0.
C8_ArrayRecords ==
    (pc = "returned" /\ WholeParses(text) /\ IsArray(Document)) =>
        /\ Len(recs) = Len(Document.v)
        /\ \A k \in 1..Len(recs) :
               /\ recs[k].index = k - 1
               /\ recs[k].raw = JSONstringify(Document.v[k])
               /\ ~recs[k].error.present
        /\ result.value.errorCount = 0

\* An array of several elements whose source text is not its serialization
C8_Witness ==
    /\ pc = "returned" /\ WholeParses(text) /\ IsArray(Document)
    /\ Len(recs) >= 2
    /\ \E k \in 1..Len(recs) : Document.v[k].t = "num"
    /\ trim(text) # JSONstringify(Document)

\* { value: element }
ValueWrapper(element) == JObj(<<[k |-> <<"v", "a", "l", "u", "e">>, v |-> element]>>)

\* C9: the data of an array element's record is the element when it is a
\* JSON object and { value: element } for every other element.
C9_ArrayData ==
    (pc = "returned" /\ WholeParses(text) /\ IsArray(Document)) =>
        \A k \in 1..Len(recs) :
            recs[k].data = IF Document.v[k].t = "obj" THEN Document.v[k]
                           ELSE ValueWrapper(Document.v[k])

\* C10: a top-level object gives one record: index 0, the object as data,
\* the trimmed text as raw, the object's keys as columns, errorCount 0.
C10_SingleObject ==
    (pc = "returned" /\ WholeParses(text) /\ Document.t = "obj") =>
        /\ Len(recs) = 1
        /\ recs[1].index = 0
        /\ recs[1].data = Document
        /\ recs[1].raw = trim(text)
        /\ ~recs[1].error.present
        /\ result.value.columns = ObjectKeys(Document)
        /\ result.value.errorCount = 0

\* An object written over two lines, with blank lines around it
C10_Witness ==
    /\ pc = "returned" /\ WholeParses(text) /\ Document.t = "obj"
    /\ text # trim(text)
    /\ \E i \in 1..Len(trim(text)) : trim(text)[i] = "\n"
    /\ Len(recs) = 1

\* The keys of the records whose data is a non-array object, record after
\* record, each record's keys in Object.keys order
RECURSIVE KeysFrom(_, _)
KeysFrom(records, k) ==
    IF k > Len(records) THEN <<>>
    ELSE (IF records[k].data.t = "obj" THEN ObjectKeys(records[k].data) ELSE <<>>)
             \o KeysFrom(records, k + 1)

AllKeys == KeysFrom(recs, 1)

Range(seq) == {seq[i] : i \in 1..Len(seq)}

\* C11: the names in columns are exactly the keys of the records whose data
\* is a non-array object; failed records, arrays and scalars give none.
C11_ColumnsAreObjectKeys ==
    pc = "returned" =>
        Range(result.value.columns) =
            UNION {Range(ObjectKeys(recs[k].data)) :
                       k \in {j \in 1..Len(recs) : recs[j].data.t = "obj"}}

\* A failed record, a record whose data is an array, a scalar record and an
\* object record together
C11_Witness ==
    /\ pc = "returned"
    /\ \E k \in 1..Len(recs) : recs[k].error.present
    /\ \E k \in 1..Len(recs) : recs[k].data.t = "arr" /\ recs[k].data.v # <<>>
    /\ \E k \in 1..Len(recs) : recs[k].data.t = "obj"
    /\ result.value.columns # <<>>

FirstPos(seq, x) == CHOOSE i \in 1..Len(seq) :
                        seq[i] = x /\ \A j \in 1..(i - 1) : seq[j] # x

\* C12: columns has no duplicate and is in first-seen order: a precedes b
\* exactly when a first occurs before b, scanning the records in index order
\* and each record's keys in their own order.
C12_ColumnsFirstSeenOrder ==
    pc = "returned" =>
        LET cols == result.value.columns
        IN  /\ \A i, j \in 1..Len(cols) : cols[i] = cols[j] => i = j
            /\ \A i, j \in 1..Len(cols) :
                   (cols[i] \in Range(AllKeys) /\ cols[j] \in Range(AllKeys)) =>
                       (i < j <=> FirstPos(AllKeys, cols[i]) < FirstPos(AllKeys, cols[j]))

\* Three columns from records that repeat keys
C12_Witness ==
    /\ pc = "returned"
    /\ Len(result.value.columns) = 3
    /\ Len(AllKeys) > 3
    /\ Len(recs) >= 2

\* C13: an empty or white-space-only input gives no record, no column and
\* errorCount 0, from the line parser skipping every line.
C13_BlankInput ==
    (pc = "returned" /\ trim(text) = <<>>) =>
        /\ result.path = "lines"
        /\ result.value = EmptyResult

\* A white-space-only input of several lines
C13_Witness ==
    /\ pc = "returned"
    /\ trim(text) = <<>> /\ text # <<>>
    /\ Len(split(text)) >= 2
    /\ recs = <<>>

\* C15: on the line path a line that parses gives a record whose data is
\* the parsed value itself, of any JSON type, unwrapped and without error.
C15_LineDataUnwrapped ==
    (pc = "returned" /\ result.path = "lines") =>
        \A k \in 1..Len(recs) :
            LET r == JSONparse(trim(NonBlankLines(text)[k]))
            IN  /\ r.ok <=> ~recs[k].error.present
                /\ r.ok => recs[k].data = r.val

\* Lines holding a number, a string and an array, each kept as parsed
C15_Witness ==
    /\ pc = "returned" /\ result.path = "lines"
    /\ \E k \in 1..Len(recs) : recs[k].data.t = "num"
    /\ \E k \in 1..Len(recs) : recs[k].data.t = "str"
    /\ \E k \in 1..Len(recs) : recs[k].data.t = "arr"

C16_IngestionReplacesResult ==
    lastEvent.name \in {"load", "replace"} =>
        /\ viewer.file.rawText = lastEvent.text
        /\ viewer.parseResult = parseJsonl(lastEvent.text).value
        /\ viewer.selectedRecord = NoSelection
        /\ ~viewer.detailOpen
        /\ viewer.searchQuery = <<>>

\* A text was just accepted over a result that was being shown, and the two
\* results differ in records, columns and error count
C16_Witness ==
    /\ lastEvent.name = "replace"
    /\ lastEvent.kind = "paste"
    /\ viewer.parseResult.columns = <<"value">>
    /\ viewer.parseResult.errorCount = 0
    /\ Len(viewer.parseResult.records) = 2

\* C17: the ParseResult is changed only by an ingestion or by reset; no
\* presentation action (search, selection, navigation, view switch, Escape,
\* word wrap, keyboard help, sorting) changes it.
C17_PresentationKeepsResult ==
    [][viewer'.parseResult # viewer.parseResult
          => lastEvent'.name \in {"load", "replace", "reset"}]_vars

\* A result with an error record still intact under a query, a selection
\* outside the filtered list, word wrap and the help dialog
C17_Witness ==
    /\ Loaded
    /\ lastEvent.name = "ui"
    /\ viewer.searchQuery = <<"x">>
    /\ viewer.selectedRecord = 2
    /\ viewer.wordWrap
    /\ viewer.showKeyboardHelp
    /\ viewer.view = "table"
    /\ sorting = "desc"
    /\ viewer.parseResult = parseJsonl(viewer.file.rawText).value
    /\ viewer.parseResult.errorCount = 1

\* C18: 'New file' returns the viewer to the drop zone: file and ParseResult
\* null, parse time 0, no selection, detail panel closed, search query empty.
C18_ResetReturnsToDropZone ==
    lastEvent.name = "reset" =>
        /\ ~Loaded
        /\ viewer.file = Null
        /\ viewer.parseResult = Null
        /\ viewer.parseTime = 0
        /\ viewer.selectedRecord = NoSelection
        /\ ~viewer.detailOpen
        /\ viewer.searchQuery = <<>>
        /\ dz = FreshDropZone

\* A reset after the view was switched and word wrap and help were toggled,
\* with a read of the earlier drop zone still in flight
C18_Witness ==
    /\ lastEvent.name = "reset"
    /\ viewer.view = "raw"
    /\ viewer.wordWrap
    /\ viewer.showKeyboardHelp
    /\ Len(pending) > 0

SameLetter(a, b) ==
    a = b \/ \E u \in 1..Len(UpperCase) : {a, b} = {UpperCase[u], LowerCase[u]}

\* s contains q, letters compared without regard to case
ContainsIgnoreCase(s, q) ==
    \E i \in 1..(Len(s) - Len(q) + 1) :
        \A j \in 1..Len(q) : SameLetter(s[i + j - 1], q[j])

\* The record list handed to the views
Shown == filteredRecords(viewer.parseResult, viewer.searchQuery)

\* C20: the filtered list is an order-preserving sub-sequence of the
\* records: all of them when the query is empty or whitespace-only, otherwise
\* exactly those whose raw text contains the query case-insensitively; the
\* match count is at most the total and each record keeps its index.
C20_FilteredSubsequence ==
    Loaded =>
        /\ Shown = SelectSeq(viewer.parseResult.records,
                             LAMBDA r : \/ trim(viewer.searchQuery) = <<>>
                                        \/ ContainsIgnoreCase(r.raw, viewer.searchQuery))
        /\ Len(Shown) <= Len(viewer.parseResult.records)
        /\ \A k \in 1..Len(Shown) :
              /\ Shown[k] = viewer.parseResult.records[Shown[k].index + 1]
              /\ \A j \in 1..(k - 1) : Shown[j].index < Shown[k].index

\* An upper-case query matches the first and the third of three records
C20_Witness ==
    /\ Loaded
    /\ viewer.searchQuery = <<"A">>
    /\ Len(viewer.parseResult.records) = 3
    /\ Len(Shown) = 2
    /\ Shown[2].index = 2

\* The 1-based position of the record with this index in records, 0 if none
PositionIn(records, index) ==
    IF \E k \in 1..Len(records) : records[k].index = index
    THEN CHOOSE k \in 1..Len(records) : records[k].index = index
    ELSE 0

\* The key event of an arrow key
ArrowKey(direction, meta) ==
    [key |-> IF direction = "prev" THEN "ArrowUp" ELSE "ArrowDown",
     meta |-> meta, inInput |-> FALSE]

\* C21: with the detail panel open on the record at position p of the
\* filtered list, next (button or ArrowDown) selects the record at p+1 and
\* prev (button or ArrowUp) the one at p-1 when that position exists; at
\* either end, or when the selected record is not in the filtered list, the
\* selection is unchanged; navigation never selects a record outside the
\* filtered list and changes nothing but the selection.
C21_NavigationInFilteredList ==
    DetailShown =>
        \A direction \in {"prev", "next"} :
            LET after == handleNavigateRecord(viewer, direction)
                p     == PositionIn(Shown, viewer.selectedRecord)
                q     == IF direction = "next" THEN p + 1 ELSE p - 1
            IN  /\ after.selectedRecord =
                      IF p >= 1 /\ q >= 1 /\ q <= Len(Shown)
                      THEN Shown[q].index ELSE viewer.selectedRecord
                /\ after.selectedRecord # viewer.selectedRecord
                      => \E k \in 1..Len(Shown) : Shown[k].index = after.selectedRecord
                /\ after = [viewer EXCEPT !.selectedRecord = after.selectedRecord]
                /\ \A meta \in BOOLEAN :
                      onKeyDown(viewer, ArrowKey(direction, meta)) = after

\* The panel is open on the last of two matches, which are the first and the
\* third record: prev skips the second record, next has nowhere to go
C21_Witness ==
    /\ DetailShown
    /\ lastEvent.name = "ui"
    /\ viewer.view = "tree"
    /\ viewer.searchQuery = <<"A">>
    /\ Len(Shown) = 2
    /\ PositionIn(Shown, viewer.selectedRecord) = 2
    /\ viewer.selectedRecord = 2

\* A step of the keydown handler for the Escape key
EscapeStep ==
    /\ lastEvent' = UIEvent
    /\ \E meta \in BOOLEAN :
          Presented(onKeyDown(viewer, [key |-> "Escape", meta |-> meta, inInput |-> FALSE]))

\* C22: pressing Escape while the keyboard help dialog is showing closes it.
C22_EscapeClosesHelp ==
    [][(EscapeStep /\ Loaded /\ viewer.showKeyboardHelp) => ~viewer'.showKeyboardHelp]_vars

C24_EscapeByPriority ==
    [][EscapeStep =>
          viewer' = IF viewer.detailOpen THEN [viewer EXCEPT !.detailOpen = FALSE]
                    ELSE IF viewer.searchQuery # <<>> THEN [viewer EXCEPT !.searchQuery = <<>>]
                    ELSE [viewer EXCEPT !.showKeyboardHelp = FALSE]]_vars

\* The detail panel is closed while a query and the help dialog, which an
\* Escape that closed it left alone, are still there
C24_Witness ==
    /\ Loaded
    /\ lastEvent.name = "ui"
    /\ ~viewer.detailOpen
    /\ viewer.selectedRecord = 1
    /\ viewer.searchQuery = <<"x">>
    /\ viewer.showKeyboardHelp

(***************************************************************************)
(* Properties of the tree view and of the reads                            *)
(***************************************************************************)

\* C25: in tree view, whenever the filtered record list is non-empty, the
\* current position refers to a record of it: 0 <= currentIndex < its length.
C25_TreeIndexInRange ==
    TreeShown => currentIndex >= 0 /\ currentIndex < Len(TreeRecords)

\* C26: when several reads were started from the drop zone before any
\* completed, then once all have completed the viewer shows the file that
\* was started last, whatever the order in which they finished.
C26_LastStartedIsShown ==
    (pending = <<>> /\ Loaded /\ lastEvent.name = "replace" /\ ~lastEvent.live)
        => viewer.file.name = lastStarted

====
